---- MODULE Spec2Model ----
(***************************************************************************)
(* EMAStrategy and RSIStrategy (src/strategies): the per-(ticker, interval)*)
(* signal fusion and the assembly of the analysis report that is stored in *)
(* the shared agent state.                                                 *)
(*                                                                         *)
(* Numbers.  Weights are kept in hundredths (0.45 is 45).  A confidence is *)
(* an exact rational [num, den] in lowest terms; indicator confidences are *)
(* multiples of 1 / ConfDen.  Python floats are modelled by these exact    *)
(* rationals.                                                              *)
(***************************************************************************)
EXTENDS Integers, Sequences, FiniteSets, TLC

VARIABLES
    tickers,          \* data["tickers"]: sequence of ticker names
    intervals,        \* data["intervals"]: sequence of interval values
    series,           \* data[f"{ticker}_{interval.value}"], by <<ticker, interval>>
    data_name,        \* data["name"]
    analyst_signals,  \* data["analyst_signals"]: agent key -> report
    show_reasoning,   \* state["metadata"]["show_reasoning"]
    reasoning_shown,  \* what show_agent_reasoning was last given
    result,           \* what the last __call__ returned or raised
    calls,            \* indicator calls made by the last __call__, per indicator
    request,          \* the strategy, tickers and intervals of the last __call__
    replaced,         \* the report the last __call__ overwrote in analyst_signals
    p_strategy,       \* pair step: the strategy whose label maps are used
    p_base,           \* pair step: a weighting profile
    p_scale,          \* pair step: the factor applied to every weight of p_base
    p_df,             \* pair step: the series handed to the indicators
    p_out             \* pair step: outcome of processing the pair

vars == <<tickers, intervals, series, data_name, analyst_signals, show_reasoning,
          reasoning_shown, result, calls, request, replaced,
          p_strategy, p_base, p_scale, p_df, p_out>>

runner_vars == <<tickers, intervals, series, data_name, analyst_signals,
                 show_reasoning, reasoning_shown, result, calls, request, replaced>>

pair_vars == <<p_strategy, p_base, p_scale, p_df, p_out>>

---------------------------------------------------------------------------
(* Bounds of the model *)

MaxTickers == 2
MaxIntervals == 2
MaxScale == 2

AllTickers == {"AAA", "BBB"}
AllIntervals == {"1h", "1d"}

---------------------------------------------------------------------------
(* Values *)

Strategies == {"EMAStrategy", "RSIStrategy"}

Signals == {"bullish", "bearish", "neutral"}

Indicators == {"trend", "momentum", "mean_reversion", "volatility"}

\* ten-thousandths: 0.5049 is 5049 / ConfDen
ConfDen == 100 * 100

RECURSIVE GCD(_, _)
GCD(a, b) == IF b = 0 THEN a ELSE GCD(b, a % b)

\* the rational n / d (n >= 0, d > 0) in lowest terms
Rat(n, d) == [num |-> n \div GCD(n, d), den |-> d \div GCD(n, d)]

\* a rational whose denominator divides ConfDen, in ten-thousandths
TenThousandths(c) == c.num * (ConfDen \div c.den)

Abs(x) == IF x < 0 THEN 0 - x ELSE x

RECURSIVE SumOver(_, _)
SumOver(S, f) ==
    IF S = {} THEN 0
    ELSE LET x == CHOOSE y \in S : TRUE IN f[x] + SumOver(S \ {x}, f)

Range(s) == {s[k] : k \in DOMAIN s}

EmptyMap == [x \in {} |-> {}]

Ok(v) == [ok |-> TRUE, val |-> v]

Raise(e) == [ok |-> FALSE, error |-> e]

---------------------------------------------------------------------------
(* Series and the indicator functions.  A series with rows is abstracted by *)
(* what each of the four indicator computations returns on it.              *)

Absent == [kind |-> "absent"]

EmptyFrame == [kind |-> "empty"]

Malformed == [kind |-> "malformed"]

Triple(sig, c) == [signal |-> sig, confidence |-> c]

Rows(tr, mo, mr, vo) ==
    [kind |-> "rows", trend |-> tr, momentum |-> mo, mean_reversion |-> mr,
     volatility |-> vo]

\* the {signal, confidence, metrics} triple of one indicator
SignalTriple(ind, sig, c) ==
    [signal |-> sig, confidence |-> Rat(c, ConfDen),
     metrics |-> [indicator |-> ind, form |-> "pandas"]]

\* an indicator: neutral with zero confidence on an empty series, a fault on
\* a malformed one, its own reading of the rows otherwise
Indicator(ind, df) ==
    IF df.kind = "malformed" THEN Raise("AdapterFault")
    ELSE IF df.kind = "empty" THEN Ok(SignalTriple(ind, "neutral", 0))
    ELSE Ok(SignalTriple(ind, df[ind].signal, df[ind].confidence))

calculate_trend_signals(df) == Indicator("trend", df)

calculate_momentum_signals(df) == Indicator("momentum", df)

calculate_mean_reversion_signals(df) == Indicator("mean_reversion", df)

calculate_volatility_signals(df) == Indicator("volatility", df)

normalize_pandas(m) == [m EXCEPT !.form = "json"]

---------------------------------------------------------------------------
(* Fusion *)

Sign(sig) == IF sig = "bullish" THEN 1 ELSE IF sig = "bearish" THEN 0 - 1 ELSE 0

\* labels that take part: present in the signal set with a weight > 0
UsableLabels(signals, weights) ==
    {l \in DOMAIN signals : l \in DOMAIN weights /\ weights[l] > 0}

TotalWeight(signals, weights) ==
    SumOver(UsableLabels(signals, weights), weights)

WeightedSum(signals, weights) ==
    LET used == UsableLabels(signals, weights)
        contribution == [l \in used |->
            weights[l] * TenThousandths(signals[l].confidence)
                * Sign(signals[l].signal)]
    IN SumOver(used, contribution)

\* variant: divides by the weight total of a profile that sums to 1
FusionAssumingUnitTotal(signals, weights) ==
    LET W == TotalWeight(signals, weights)
        num == WeightedSum(signals, weights)
        den == 100 * ConfDen
    IN IF W = 0 THEN Raise("ConfigurationError")
       ELSE Ok([signal |-> IF num > 0 THEN "bullish"
                           ELSE IF num < 0 THEN "bearish" ELSE "neutral",
                confidence |-> IF Abs(num) > den THEN Rat(den, den)
                               ELSE Rat(Abs(num), den)])

weighted_signal_combination(signals, weights) ==
    LET W == TotalWeight(signals, weights)
        num == WeightedSum(signals, weights)
        den == W * ConfDen
    IN IF W = 0 THEN Raise("ConfigurationError")
       ELSE Ok([signal |-> IF num > 0 THEN "bullish"
                           ELSE IF num < 0 THEN "bearish" ELSE "neutral",
                confidence |-> IF Abs(num) > den THEN Rat(den, den)
                               ELSE Rat(Abs(num), den)])

---------------------------------------------------------------------------
(* The strategies' configuration *)

strategy_weights(s) ==
    IF s = "EMAStrategy"
    THEN [ema_crossovers |-> 45, ema_slope |-> 30, price_to_ema |-> 15,
          multi_timeframe |-> 5, ema_volatility |-> 5]
    ELSE [rsi_overbought_oversold |-> 5, rsi_divergence |-> 5,
          rsi_trend_strength |-> 5, rsi_volatility |-> 5, momentum |-> 80]

ema_periods ==
    [short |-> <<3, 5, 8>>, medium |-> <<13, 21, 34>>, long |-> <<55, 89, 144>>]

\* variant: the trend indicator is computed again for the second label it backs
IndicatorCallsRepeated(s) ==
    <<"trend", "momentum", "mean_reversion", "volatility", "trend">>

\* the indicator calls of one loop iteration, in order
IndicatorCalls(s) == <<"trend", "momentum", "mean_reversion", "volatility">>

\* label -> indicator output handed to weighted_signal_combination
FusionLabels(s) ==
    IF s = "EMAStrategy"
    THEN [ema_crossovers |-> "trend", ema_slope |-> "momentum",
          price_to_ema |-> "mean_reversion", multi_timeframe |-> "trend",
          ema_volatility |-> "volatility"]
    ELSE [rsi_overbought_oversold |-> "mean_reversion", rsi_divergence |-> "trend",
          rsi_trend_strength |-> "momentum", rsi_volatility |-> "volatility",
          momentum |-> "momentum"]

\* variant: one label's detail is taken from another indicator's output
DetailLabelsMiswired(s) ==
    IF s = "EMAStrategy"
    THEN [ema_crossovers |-> "trend", ema_slope |-> "momentum",
          price_to_ema |-> "mean_reversion", multi_timeframe |-> "momentum",
          ema_volatility |-> "volatility"]
    ELSE [rsi_overbought_oversold |-> "mean_reversion", rsi_divergence |-> "trend",
          rsi_trend_strength |-> "trend", rsi_volatility |-> "volatility",
          momentum |-> "momentum"]

\* label -> indicator output shown under strategy_signals
DetailLabels(s) ==
    IF s = "EMAStrategy"
    THEN [ema_crossovers |-> "trend", ema_slope |-> "momentum",
          price_to_ema |-> "mean_reversion", multi_timeframe |-> "trend",
          ema_volatility |-> "volatility"]
    ELSE [rsi_overbought_oversold |-> "mean_reversion", rsi_divergence |-> "trend",
          rsi_trend_strength |-> "momentum", rsi_volatility |-> "volatility",
          momentum |-> "momentum"]

---------------------------------------------------------------------------
(* One loop iteration *)

\* variant: int(c * 100), the fraction dropped
RoundDown(c) == (100 * c.num) \div c.den

\* Python round(c * 100): nearest integer, a tie goes to the even one
Round(c) ==
    LET x == 100 * c.num
        f == x \div c.den
        r == x % c.den
    IN IF 2 * r < c.den THEN f
       ELSE IF 2 * r > c.den THEN f + 1
       ELSE IF f % 2 = 0 THEN f ELSE f + 1

NoCalls == [ind \in Indicators |-> 0]

\* the indicator calls of IndicatorCalls(s) from position k on: the outputs
\* gathered so far and the calls counted; the first fault ends the iteration
RECURSIVE CallIndicators(_, _, _, _, _)
CallIndicators(s, df, k, out, n) ==
    IF k > Len(IndicatorCalls(s)) THEN [ok |-> TRUE, out |-> out, calls |-> n]
    ELSE LET ind == IndicatorCalls(s)[k]
             r == CASE ind = "trend" -> calculate_trend_signals(df)
                    [] ind = "momentum" -> calculate_momentum_signals(df)
                    [] ind = "mean_reversion" -> calculate_mean_reversion_signals(df)
                    [] ind = "volatility" -> calculate_volatility_signals(df)
             n1 == [n EXCEPT ![ind] = @ + 1]
         IN IF ~r.ok THEN [ok |-> FALSE, error |-> r.error, calls |-> n1]
            ELSE CallIndicators(s, df, k + 1,
                                [i \in Indicators |-> IF i = ind THEN r.val ELSE out[i]],
                                n1)

LabeledSignals(s, out) == [l \in DOMAIN FusionLabels(s) |-> out[FusionLabels(s)[l]]]

StrategySignals(s, out) ==
    [l \in DOMAIN DetailLabels(s) |->
        LET x == out[DetailLabels(s)[l]]
        IN [signal |-> x.signal,
            confidence |-> Round(x.confidence),
            metrics |-> normalize_pandas(x.metrics)]]

AnalysisRecord(s, combined, out) ==
    IF s = "EMAStrategy"
    THEN [signal |-> combined.signal,
          confidence |-> Round(combined.confidence),
          ema_periods |-> ema_periods,
          strategy_signals |-> StrategySignals(s, out)]
    ELSE [signal |-> combined.signal,
          confidence |-> Round(combined.confidence),
          strategy_signals |-> StrategySignals(s, out)]

\* variant: the error is caught and a neutral record stands in
FusionSwallowed(s, error, out, n) ==
    [ok |-> TRUE,
     labeled |-> LabeledSignals(s, out),
     combined_signal |-> [signal |-> "neutral", confidence |-> Rat(0, ConfDen)],
     record |-> AnalysisRecord(s, [signal |-> "neutral", confidence |-> Rat(0, ConfDen)], out),
     calls |-> n]

\* what follows a fusion that raised: nothing is caught, the error leaves
\* the iteration and no record is built
FusionRaised(s, error, out, n) ==
    [ok |-> FALSE, error |-> error, calls |-> n]

\* the body of the loop for one pair under the profile `weights`
ProcessPair(s, weights, df) ==
    LET c == CallIndicators(s, df, 1, [i \in Indicators |-> Absent], NoCalls)
    IN IF ~c.ok THEN [ok |-> FALSE, error |-> c.error, calls |-> c.calls]
       ELSE LET labeled == LabeledSignals(s, c.out)
                fused == weighted_signal_combination(labeled, weights)
            IN IF ~fused.ok THEN FusionRaised(s, fused.error, c.out, c.calls)
               ELSE [ok |-> TRUE,
                     labeled |-> labeled,
                     combined_signal |-> fused.val,
                     record |-> AnalysisRecord(s, fused.val, c.out),
                     calls |-> c.calls]

---------------------------------------------------------------------------
(* The pair step on its own: one loop iteration with its inputs (the series *)
(* and the weighting profile) drawn from bounded sets.                      *)

IndicatorReadings ==
    {Triple(sig, c) : sig \in {"bullish", "bearish"}, c \in {50, 5049, 9950}}
        \cup {Triple("neutral", c) : c \in {0, 5000}}

RowSeries ==
    {Rows(tr, mo, mr, vo) : tr \in IndicatorReadings, mo \in IndicatorReadings,
                            mr \in IndicatorReadings, vo \in IndicatorReadings}

\* profiles over the strategy's labels: its own, all ones, its own with the
\* heaviest label switched off, all zeros
Profiles(s) ==
    LET w == strategy_weights(s)
        top == CHOOSE l \in DOMAIN w : \A m \in DOMAIN w : w[m] <= w[l]
    IN {w,
        [l \in DOMAIN w |-> 1],
        [l \in DOMAIN w |-> IF l = top THEN 0 ELSE w[l]],
        [l \in DOMAIN w |-> 0]}

Scaled(w, k) == [l \in DOMAIN w |-> k * w[l]]

NotRun == [ok |-> FALSE, error |-> "not run", calls |-> NoCalls]

PairIdle ==
    /\ p_strategy = "EMAStrategy"
    /\ p_base = strategy_weights("EMAStrategy")
    /\ p_scale = 1
    /\ p_df = EmptyFrame
    /\ p_out = NotRun

PairInit ==
    /\ p_strategy \in Strategies
    /\ p_base \in Profiles(p_strategy)
    /\ p_scale \in 1..MaxScale
    /\ p_df \in RowSeries \cup {EmptyFrame, Malformed}
    /\ p_out = NotRun

RunPair ==
    /\ p_out = NotRun
    /\ p_out' = ProcessPair(p_strategy, Scaled(p_base, p_scale), p_df)
    /\ UNCHANGED <<p_strategy, p_base, p_scale, p_df>>

---------------------------------------------------------------------------
(* The shared state and one invocation of a strategy *)

TechKey == "technical_analyst_agent"

Pairs == AllTickers \X AllIntervals

SeqsUpTo(S, n) == UNION {[1..k -> S] : k \in 0..n}

SeriesA ==
    Rows(Triple("bullish", 5049), Triple("bullish", 9950),
         Triple("bearish", 50), Triple("neutral", 5000))

SeriesB ==
    Rows(Triple("bearish", 9950), Triple("bullish", 5049),
         Triple("neutral", 0), Triple("bearish", 5049))

SeriesC ==
    Rows(Triple("bullish", 9950), Triple("bullish", 9950),
         Triple("bullish", 9950), Triple("bullish", 9950))

SeriesD ==
    Rows(Triple("neutral", 5000), Triple("bearish", 50),
         Triple("bullish", 50), Triple("neutral", 0))

\* the price history of a pair, when it is loaded and well-formed
History(p) ==
    IF p = <<"AAA", "1h">> THEN SeriesA
    ELSE IF p = <<"AAA", "1d">> THEN SeriesB
    ELSE IF p = <<"BBB", "1h">> THEN SeriesC
    ELSE SeriesD

\* what data can hold for a pair: no entry, an empty frame, a frame the
\* indicators cannot read, or the pair's history
SeriesTables ==
    {tbl \in [Pairs -> {Absent, EmptyFrame, Malformed} \cup {History(p) : p \in Pairs}] :
        \A p \in Pairs : tbl[p].kind = "rows" => tbl[p] = History(p)}

\* variant: the key is built from the first ticker, not the current one
LookupFirstTicker(t, i) ==
    IF series[<<tickers[1], i>>].kind = "absent" THEN EmptyFrame
    ELSE series[<<tickers[1], i>>]

\* data.get(f"{ticker}_{interval.value}", pd.DataFrame())
Lookup(t, i) ==
    IF series[<<t, i>>].kind = "absent" THEN EmptyFrame ELSE series[<<t, i>>]

\* variant: the report already stored is taken up and added to
StaleAnalysis(ts) ==
    LET old == IF TechKey \in DOMAIN analyst_signals
               THEN analyst_signals[TechKey] ELSE EmptyMap
    IN [t \in Range(ts) \cup DOMAIN old |->
           IF t \in DOMAIN old THEN old[t] ELSE EmptyMap]

\* analysis = {}; for ticker in tickers: analysis[ticker] = {}
FreshAnalysis(ts) == [t \in Range(ts) |-> EmptyMap]

\* variant: analysis[ticker] = {interval.value: record}
PutRecordOverwrite(analysis, t, i, rec) ==
    [analysis EXCEPT ![t] = [j \in {i} |-> rec]]

\* analysis[ticker][interval.value] = record
PutRecord(analysis, t, i, rec) ==
    LET old == analysis[t]
    IN [analysis EXCEPT ![t] =
           [j \in DOMAIN old \cup {i} |-> IF j = i THEN rec ELSE old[j]]]

AddCalls(n, m) == [ind \in Indicators |-> n[ind] + m[ind]]

\* for ticker in tickers: for interval in intervals: ..., from position
\* (ti, ii) on; an error raised by an iteration leaves the loop
RECURSIVE RunLoop(_, _, _, _, _)
RunLoop(s, ti, ii, analysis, n) ==
    IF ti > Len(tickers) THEN [ok |-> TRUE, analysis |-> analysis, calls |-> n]
    ELSE IF ii > Len(intervals) THEN RunLoop(s, ti + 1, 1, analysis, n)
    ELSE LET t == tickers[ti]
             i == intervals[ii]
             p == ProcessPair(s, strategy_weights(s), Lookup(t, i))
             n1 == AddCalls(n, p.calls)
         IN IF ~p.ok
            THEN [ok |-> FALSE, error |-> p.error, pair |-> <<t, i>>, calls |-> n1]
            ELSE RunLoop(s, ti, ii + 1, PutRecord(analysis, t, i, p.record), n1)

\* variant: state["data"]["analyst_signals"] = {"technical_analyst_agent": analysis}
StoreSignalsOnly(signals, analysis) == [k \in {TechKey} |-> analysis]

\* state["data"]["analyst_signals"]["technical_analyst_agent"] = analysis
StoreSignals(signals, analysis) ==
    [k \in DOMAIN signals \cup {TechKey} |->
        IF k = TechKey THEN analysis ELSE signals[k]]

NoReport == [stored |-> FALSE]

AnalystTitle(s) == IF s = "EMAStrategy" THEN "EMA Analyst" ELSE "RSI Analyst"

\* HumanMessage(content=json.dumps(analysis), name="technical_analyst_agent")
Message(analysis) == [content |-> [json |-> analysis], name |-> TechKey]

Call(s) ==
    \E run \in {RunLoop(s, 1, 1, FreshAnalysis(tickers), NoCalls)} :
       /\ data_name' = s
       /\ calls' = run.calls
       /\ request' = [strategy |-> s, tickers |-> tickers, intervals |-> intervals]
       /\ IF run.ok
          THEN /\ reasoning_shown' =
                    IF show_reasoning
                    THEN [title |-> AnalystTitle(s), report |-> run.analysis]
                    ELSE reasoning_shown
               /\ analyst_signals' = StoreSignals(analyst_signals, run.analysis)
               /\ replaced' = IF TechKey \in DOMAIN analyst_signals
                               THEN analyst_signals[TechKey] ELSE NoReport
               /\ result' = [status |-> "returned",
                             messages |-> <<Message(run.analysis)>>]
          ELSE /\ result' = [status |-> "raised", error |-> run.error,
                             pair |-> run.pair]
               /\ UNCHANGED <<analyst_signals, reasoning_shown, replaced>>
       /\ UNCHANGED <<tickers, intervals, series, show_reasoning>>
       /\ UNCHANGED pair_vars

CallEMA == Call("EMAStrategy")

CallRSI == Call("RSIStrategy")

\* the caller, between invocations: a ticker or an interval not yet listed
\* is added, or the last one is dropped
AppendTicker ==
    /\ Len(tickers) < MaxTickers
    /\ \E t \in AllTickers \ Range(tickers) : tickers' = Append(tickers, t)
    /\ UNCHANGED <<intervals, series, data_name, analyst_signals, show_reasoning,
                   reasoning_shown, result, calls, request, replaced>>
    /\ UNCHANGED pair_vars

DropTicker ==
    /\ Len(tickers) > 0
    /\ tickers' = SubSeq(tickers, 1, Len(tickers) - 1)
    /\ UNCHANGED <<intervals, series, data_name, analyst_signals, show_reasoning,
                   reasoning_shown, result, calls, request, replaced>>
    /\ UNCHANGED pair_vars

AppendInterval ==
    /\ Len(intervals) < MaxIntervals
    /\ \E i \in AllIntervals \ Range(intervals) : intervals' = Append(intervals, i)
    /\ UNCHANGED <<tickers, series, data_name, analyst_signals, show_reasoning,
                   reasoning_shown, result, calls, request, replaced>>
    /\ UNCHANGED pair_vars

DropInterval ==
    /\ Len(intervals) > 0
    /\ intervals' = SubSeq(intervals, 1, Len(intervals) - 1)
    /\ UNCHANGED <<tickers, series, data_name, analyst_signals, show_reasoning,
                   reasoning_shown, result, calls, request, replaced>>
    /\ UNCHANGED pair_vars

OtherSignals == [risk_management_agent |-> [note |-> "kept"]]

NoRequest == [strategy |-> "none", tickers |-> <<>>, intervals |-> <<>>]

RunnerStart ==
    /\ data_name = "none"
    /\ show_reasoning \in BOOLEAN
    /\ reasoning_shown = [title |-> "none"]
    /\ result = [status |-> "none"]
    /\ calls = NoCalls
    /\ request = NoRequest
    /\ replaced = NoReport

RunnerIdle ==
    /\ tickers = <<>>
    /\ intervals = <<>>
    /\ series = [p \in Pairs |-> Absent]
    /\ data_name = "none"
    /\ analyst_signals = EmptyMap
    /\ show_reasoning = FALSE
    /\ reasoning_shown = [title |-> "none"]
    /\ result = [status |-> "none"]
    /\ calls = NoCalls
    /\ request = NoRequest
    /\ replaced = NoReport

SeqTable ==
    [p \in Pairs |->
        IF p = <<"AAA", "1d">> THEN EmptyFrame
        ELSE IF p = <<"BBB", "1d">> THEN Absent
        ELSE History(p)]

---------------------------------------------------------------------------
(* Specifications *)

\* one invocation of a strategy on a shared state with any data in it
Init ==
    /\ tickers \in SeqsUpTo(AllTickers, MaxTickers)
    /\ intervals \in SeqsUpTo(AllIntervals, MaxIntervals)
    /\ series \in SeriesTables
    /\ analyst_signals = OtherSignals
    /\ RunnerStart
    /\ PairIdle

InvokeEMA == result.status = "none" /\ CallEMA

InvokeRSI == result.status = "none" /\ CallRSI

Next == InvokeEMA \/ InvokeRSI

Spec == Init /\ [][Next]_vars

\* any number of invocations on one shared state, the caller changing the
\* tickers and intervals between them
InitSeq ==
    /\ tickers = <<>>
    /\ intervals = <<>>
    /\ series = SeqTable
    /\ analyst_signals = EmptyMap
    /\ RunnerStart
    /\ PairIdle

NextSeq ==
    \/ CallEMA
    \/ CallRSI
    \/ AppendTicker
    \/ DropTicker
    \/ AppendInterval
    \/ DropInterval

SpecSeq == InitSeq /\ [][NextSeq]_vars

\* one loop iteration on its own
InitPair == RunnerIdle /\ PairInit

NextPair == RunPair /\ UNCHANGED runner_vars

PairSpec == InitPair /\ [][NextPair]_vars

---------------------------------------------------------------------------
(* Properties *)

\* the strategy's report as returned in the message
ReturnedReport == result.messages[1].content.json

RequestedPairs ==
    {<<tickers[ti], intervals[ii]>> : ti \in DOMAIN tickers, ii \in DOMAIN intervals}

NoFaultRequested == \A p \in RequestedPairs : series[p].kind # "malformed"

HasExactKeys(report, ts, is) ==
    /\ DOMAIN report = Range(ts)
    /\ \A t \in DOMAIN report : DOMAIN report[t] = Range(is)

\* the record of a pair, from that pair's own series and the strategy's weights
OwnRecord(s, p) ==
    LET own == ProcessPair(s, strategy_weights(s),
                           IF series[p].kind = "absent" THEN EmptyFrame
                           ELSE series[p])
    IN IF own.ok THEN own.record ELSE [error |-> own.error]

MergedByKey(s, ts, is) ==
    [t \in Range(ts) |-> [i \in Range(is) |-> OwnRecord(s, <<t, i>>)]]

\* C1: whatever series are absent or empty, an invocation returns a report
\* whose keys are exactly the requested tickers and, under each ticker,
\* exactly the requested intervals
C1_ReportComplete ==
    (result.status # "none" /\ NoFaultRequested) =>
        /\ result.status = "returned"
        /\ HasExactKeys(ReturnedReport, tickers, intervals)
        /\ HasExactKeys(analyst_signals[TechKey], tickers, intervals)

C1_Witness ==
    /\ result.status = "returned"
    /\ Cardinality(Range(tickers)) = 2
    /\ Cardinality(Range(intervals)) = 2
    /\ \E p \in RequestedPairs : series[p] = Absent
    /\ \E p \in RequestedPairs : series[p] = EmptyFrame
    /\ \E p \in RequestedPairs : series[p].kind = "rows"

\* C2 as stated: an invocation leaves every field of the shared state as it was
C2_NoSideEffect ==
    [][/\ data_name' = data_name
       /\ analyst_signals' = analyst_signals
       /\ tickers' = tickers
       /\ intervals' = intervals
       /\ series' = series]_vars

\* C2 amended: an invocation changes, of the shared state, only data["name"]
\* (to the strategy's name) and, when it returns, the entry of analyst_signals
\* under technical_analyst_agent; tickers, intervals, series, the metadata
\* and every other entry of analyst_signals stay as they were
C2_OnlyNameAndOwnKey ==
    [][/\ tickers' = tickers
       /\ intervals' = intervals
       /\ series' = series
       /\ show_reasoning' = show_reasoning
       /\ data_name' = request'.strategy
       /\ DOMAIN analyst_signals \subseteq DOMAIN analyst_signals'
       /\ DOMAIN analyst_signals' \subseteq DOMAIN analyst_signals \cup {TechKey}
       /\ \A k \in DOMAIN analyst_signals \ {TechKey} :
              analyst_signals'[k] = analyst_signals[k]]_vars

C2_Witness ==
    /\ result.status = "returned"
    /\ data_name = "RSIStrategy"
    /\ Len(tickers) = 2
    /\ DOMAIN analyst_signals = DOMAIN OtherSignals \cup {TechKey}
    /\ analyst_signals[TechKey] # EmptyMap
    /\ \A k \in DOMAIN OtherSignals : analyst_signals[k] = OtherSignals[k]

\* C3: when an indicator raises for one requested pair, the invocation still
\* returns a report with an entry for every requested pair
C3_FaultIsolated ==
    (result.status # "none" /\ ~NoFaultRequested) =>
        /\ result.status = "returned"
        /\ HasExactKeys(ReturnedReport, tickers, intervals)

\* C4: the report is the merge by key of records each computed from its own
\* pair's series and the strategy's weights alone, so that the order in which
\* the pairs are processed cannot show in it
C4_PairIndependent ==
    result.status = "returned" =>
        /\ ReturnedReport = MergedByKey(request.strategy, tickers, intervals)
        /\ analyst_signals[TechKey] = ReturnedReport

C4_Witness ==
    /\ result.status = "returned"
    /\ Cardinality(RequestedPairs) = 4
    /\ \A p, q \in RequestedPairs :
           p # q => ReturnedReport[p[1]][p[2]] # ReturnedReport[q[1]][q[2]]

\* C8: an invocation that returns has called each indicator once for every
\* pair of the loop, and no invocation calls one more often than that
C8_OncePerPair ==
    /\ result.status = "returned" =>
           \A ind \in Indicators : calls[ind] = Len(tickers) * Len(intervals)
    /\ \A ind \in Indicators : calls[ind] <= Len(tickers) * Len(intervals)

C8_Witness ==
    /\ result.status = "returned"
    /\ request.strategy = "EMAStrategy"
    /\ Len(tickers) = 2
    /\ Len(intervals) = 2
    /\ \A ind \in Indicators : calls[ind] = 4

\* C10: after an invocation that returned, analyst_signals holds under
\* technical_analyst_agent the report of that invocation, with the keys of
\* its tickers and intervals and no others, and data["name"] is its strategy
C10_LatestReport ==
    result.status = "returned" =>
        /\ data_name = request.strategy
        /\ analyst_signals[TechKey] = ReturnedReport
        /\ HasExactKeys(analyst_signals[TechKey], request.tickers, request.intervals)
        /\ analyst_signals[TechKey] =
               MergedByKey(request.strategy, request.tickers, request.intervals)

\* a later invocation that overwrote a report holding a ticker it was not
\* itself asked for
C10_Witness ==
    /\ result.status = "returned"
    /\ replaced # NoReport
    /\ \E t \in DOMAIN replaced :
           /\ t \notin Range(request.tickers)
           /\ DOMAIN replaced[t] # {}
    /\ request.tickers # <<>>
    /\ request.intervals # <<>>

---------------------------------------------------------------------------
(* Properties of one loop iteration *)

PairRan == p_out # NotRun

PairProfile == Scaled(p_base, p_scale)

\* r is an integer percentage within 1/2 of 100 * c
NearestPercent(r, c) ==
    /\ r \in 0..100
    /\ 2 * Abs(r * c.den - 100 * c.num) <= c.den

\* C5: under a profile whose weights are all zero the iteration ends with a
\* ConfigurationError and builds no record
C5_ZeroWeightRaises ==
    (/\ PairRan
     /\ p_df.kind # "malformed"
     /\ \A l \in DOMAIN PairProfile : PairProfile[l] = 0) =>
        /\ ~p_out.ok
        /\ p_out.error = "ConfigurationError"
        /\ "record" \notin DOMAIN p_out

C5_Witness ==
    /\ PairRan
    /\ p_df.kind = "rows"
    /\ \A l \in DOMAIN PairProfile : PairProfile[l] = 0
    /\ p_out.error = "ConfigurationError"

\* C6: every confidence of a record is the raw confidence in [0,1] times 100,
\* rounded to the nearest integer in 0..100; 0.5049 gives 50 and 0.995 gives
\* 100; the value the fusion returned is the unrounded one
C6_RoundedPercent ==
    p_out.ok =>
        LET rec == p_out.record
            raw == p_out.combined_signal.confidence
        IN /\ 0 <= raw.num /\ raw.num <= raw.den
           /\ NearestPercent(rec.confidence, raw)
           /\ \A l \in DOMAIN rec.strategy_signals :
                  NearestPercent(rec.strategy_signals[l].confidence,
                                 p_out.labeled[l].confidence)
           /\ (raw = Rat(5049, ConfDen)) => rec.confidence = 50
           /\ (raw = Rat(9950, ConfDen)) => rec.confidence = 100
           /\ \A c \in {5049, 9950, 50} :
                  (\A l \in DOMAIN p_out.labeled :
                      /\ p_out.labeled[l].signal = "bullish"
                      /\ p_out.labeled[l].confidence = Rat(c, ConfDen))
                  => raw = Rat(c, ConfDen)

C6_Witness ==
    /\ p_out.ok
    /\ p_out.combined_signal.confidence = Rat(9950, ConfDen)
    /\ p_out.record.confidence = 100
    /\ p_out.record.signal = "bullish"

\* C7: with every weight of a profile of positive total multiplied by the
\* same positive factor the fused signal and confidence are those of the
\* profile itself; the strategies' own profiles sum to 1
C7_ScaleInvariant ==
    /\ \A s \in Strategies :
           SumOver(DOMAIN strategy_weights(s), strategy_weights(s)) = 100
    /\ (/\ PairRan
        /\ p_df.kind # "malformed"
        /\ \E l \in DOMAIN p_base : p_base[l] > 0) =>
           /\ p_out.ok
           /\ LET base == weighted_signal_combination(p_out.labeled, p_base)
                  got == p_out.combined_signal
              IN /\ base.ok
                 /\ base.val.signal = got.signal
                 /\ base.val.confidence = got.confidence

C7_Witness ==
    /\ p_out.ok
    /\ p_scale > 1
    /\ p_base = strategy_weights(p_strategy)
    /\ p_out.combined_signal.signal = "bearish"
    /\ p_out.combined_signal.confidence.num > 0
    /\ p_out.combined_signal.confidence.num < p_out.combined_signal.confidence.den

\* C9: the labels given to the fusion, the labels of the strategy's weights
\* and the labels of strategy_signals are one set, and each label's detail
\* is the signal, rounded confidence and metrics of the indicator output the
\* fusion got under that label
C9_LabelsAgree ==
    p_out.ok =>
        LET detail == p_out.record.strategy_signals
            given == p_out.labeled
        IN /\ DOMAIN given = DOMAIN strategy_weights(p_strategy)
           /\ DOMAIN detail = DOMAIN given
           /\ \A l \in DOMAIN detail :
                  /\ detail[l].signal = given[l].signal
                  /\ detail[l].confidence = Round(given[l].confidence)
                  /\ detail[l].metrics = normalize_pandas(given[l].metrics)
           /\ \A l, m \in DOMAIN detail :
                  given[l] = given[m] => detail[l] = detail[m]

C9_Witness ==
    /\ p_out.ok
    /\ p_strategy = "EMAStrategy"
    /\ p_df.kind = "rows"
    /\ p_df.trend # p_df.momentum
    /\ p_out.record.strategy_signals["ema_crossovers"]
           = p_out.record.strategy_signals["multi_timeframe"]
    /\ p_out.record.strategy_signals["multi_timeframe"]
           # p_out.record.strategy_signals["ema_slope"]

====
